---------------------------- MODULE Spec2Model ----------------------------
(***************************************************************************)
(* createvibe/proxyobserver: a Proxy with get / set / deleteProperty traps *)
(* that wraps nested containers on demand and binds one Access Step into   *)
(* the observer per container boundary crossed.                            *)
(*                                                                         *)
(* The repository ships the wrapper twice: src/ProxyObserver.js and        *)
(* src/unnamed/part_000.  They differ in the get trap (null test) and in   *)
(* what the deleteProperty trap returns; the variable impl says which      *)
(* file the client required.                                               *)
(*                                                                         *)
(* Scope of the data the client observes: plain containers whose           *)
(* properties are data properties (value, writable, configurable) with an  *)
(* optional prototype; the values stored in them are undefined, null,      *)
(* strings and references to containers.  Wrappers themselves are never    *)
(* stored as property values, objects are extensible, and there are no     *)
(* accessor properties.                                                    *)
(*                                                                         *)
(* Spec has the traps under a client and an observer that may itself       *)
(* read, write and delete through wrappers.  SpecArrays has them under     *)
(* Array.prototype.push and splice called on the wrapper of an array.      *)
(* SpecReference has lib/makeReference.js.                                 *)
(***************************************************************************)
EXTENDS Integers, Sequences, FiniteSets, TLC

VARIABLES
    impl,      \* which source file is in use: "ProxyObserver" | "proxyobserver"
    heap,      \* the containers: heap[o] = [proto, props]
    proxies,   \* the wrappers created so far, in creation order
    pend,      \* stack of traps that invoked the observer and wait for it
    calls,     \* number of observer invocations so far
    chain,     \* the arguments of the latest observer invocation
    ret        \* the latest step: the operation, its arguments and its result

vars == <<impl, heap, proxies, pend, calls, chain, ret>>

(***************************************************************************)
(* Bounds of the model.                                                    *)
(***************************************************************************)
MaxOps == 4      \* wrappers created plus observer invocations
MaxLen == 3      \* elements an array holds at most
MaxChain == 3    \* steps of a chain handed to makeReference at most

Props == {"a", "b"}

(***************************************************************************)
(* JavaScript values.                                                      *)
(***************************************************************************)
Undefined == [t |-> "undefined", x |-> 0]
Null == [t |-> "null", x |-> 0]
Str(n) == [t |-> "string", x |-> n]
Obj(o) == [t |-> "object", x |-> o]
Fn == [t |-> "function", x |-> 0]
Px(i) == [t |-> "proxy", x |-> i]
Num(n) == [t |-> "number", x |-> n]

\* typeof: null and proxies over objects are "object"
TypeOf(v) == IF v.t \in {"null", "proxy"} THEN "object" ELSE v.t

Absent == [has |-> FALSE, v |-> Undefined, w |-> TRUE, c |-> TRUE]
Data(v) == [has |-> TRUE, v |-> v, w |-> TRUE, c |-> TRUE]
Attr(v, w, c) == [has |-> TRUE, v |-> v, w |-> w, c |-> c]
Plain(pa, pb) == [proto |-> 0, props |-> [p \in Props |-> IF p = "a" THEN pa ELSE pb]]
Derived(o, pa, pb) == [proto |-> o, props |-> [p \in Props |-> IF p = "a" THEN pa ELSE pb]]

(***************************************************************************)
(* Arrays: the own properties are the index keys and length, which is      *)
(* writable and not configurable.                                          *)
(***************************************************************************)
\* the array index an index key stands for (ToString(k) is its key)
Index(q) == CHOOSE k \in 0..MaxLen : ToString(k) = q

ArrayKeys == {ToString(k) : k \in 0..(MaxLen - 1)} \cup {"length"}

\* the array literal [elems[1], ..., elems[n]]
Arr(elems) ==
    [proto |-> 0,
     props |-> [q \in ArrayKeys |->
                  IF q = "length" THEN Attr(Num(Len(elems)), TRUE, FALSE)
                  ELSE IF Index(q) < Len(elems) THEN Data(elems[Index(q) + 1])
                  ELSE Absent]]

IsArray(h, o) == "length" \in DOMAIN h[o].props

\* [[DefineOwnProperty]] of an array for a writable key: length deletes the
\* elements from the new length on; an index at or past length moves length
ArrayDefine(a, p, v) ==
    IF p = "length"
    THEN [a EXCEPT !.props =
             [q \in DOMAIN a.props |->
                 IF q = "length" THEN Attr(v, TRUE, FALSE)
                 ELSE IF Index(q) >= v.x THEN Absent
                 ELSE a.props[q]]]
    ELSE [a EXCEPT !.props =
             [q \in DOMAIN a.props |->
                 IF q = p THEN Data(v)
                 ELSE IF q = "length" /\ Index(p) >= a.props[q].v.x
                      THEN Attr(Num(Index(p) + 1), TRUE, FALSE)
                 ELSE a.props[q]]]

(***************************************************************************)
(* Property lookup of ordinary objects (prototype chain of depth <= 2).    *)
(***************************************************************************)
OwnHas(h, o, p) == h[o].props[p].has

\* the object on the prototype chain of o that holds p, 0 if none
RECURSIVE Holder(_, _, _)
Holder(h, o, p) ==
    IF o = 0 THEN 0
    ELSE IF OwnHas(h, o, p) THEN o
    ELSE Holder(h, h[o].proto, p)

\* prop in target
HasProperty(h, o, p) == Holder(h, o, p) # 0

\* target[prop], Reflect.get(target, prop, receiver)
ReflectGet(h, o, p) ==
    IF Holder(h, o, p) = 0 THEN Undefined ELSE h[Holder(h, o, p)].props[p].v

\* mutant of ReflectSet: the writable attribute is not looked at
ReflectSetForced(h, o, p, v) ==
    IF OwnHas(h, o, p)
    THEN [ok |-> TRUE, heap |-> [h EXCEPT ![o].props[p].v = v]]
    ELSE [ok |-> TRUE, heap |-> [h EXCEPT ![o].props[p] = Data(v)]]

\* Reflect.set(target, prop, value, receiver), receiver a wrapper over target:
\* [ok, heap] after OrdinarySet
ReflectSet(h, o, p, v) ==
    LET holder == Holder(h, o, p) IN
    IF holder # 0 /\ ~h[holder].props[p].w
    THEN [ok |-> FALSE, heap |-> h]
    ELSE IF IsArray(h, o)
    THEN [ok |-> TRUE, heap |-> [h EXCEPT ![o] = ArrayDefine(h[o], p, v)]]
    ELSE IF holder = o
    THEN [ok |-> TRUE, heap |-> [h EXCEPT ![o].props[p].v = v]]
    ELSE [ok |-> TRUE, heap |-> [h EXCEPT ![o].props[p] = Data(v)]]

\* Reflect.deleteProperty(target, prop): [ok, heap] after OrdinaryDelete
ReflectDeleteProperty(h, o, p) ==
    IF ~OwnHas(h, o, p) THEN [ok |-> TRUE, heap |-> h]
    ELSE IF ~h[o].props[p].c THEN [ok |-> FALSE, heap |-> h]
    ELSE [ok |-> TRUE, heap |-> [h EXCEPT ![o].props[p] = Absent]]

(***************************************************************************)
(* The latest step.  op is "wrap", "get", "set" or "delete" when that      *)
(* operation returned to its caller with res, and "observer" when a trap   *)
(* has just called the observer; px, prop and val are the wrapper, the     *)
(* property and the value of the operation, fired the number of observer   *)
(* invocations its trap made.                                              *)
(***************************************************************************)
Bool(b) == [t |-> "boolean", x |-> IF b THEN 1 ELSE 0]
TypeError == [t |-> "TypeError", x |-> 0]
Thrown == [t |-> "Error", x |-> 0]
NoProp == "-"
Done(op, i, p, v, res, fired) ==
    [op |-> op, px |-> i, prop |-> p, val |-> v, res |-> res, fired |-> fired]

(***************************************************************************)
(* The observer: the client's function f with the steps bound so far.      *)
(* f keeps the arguments of its latest invocation in chain and counts its  *)
(* invocations in calls.                                                   *)
(***************************************************************************)
Observer(f, bound) == [f |-> f, bound |-> bound]

\* mutant of Bind: the new step is bound in front of the earlier ones
BindInFront(observer, step) == Observer(observer.f, <<step>> \o observer.bound)

\* observer.bind(null, step): bound arguments are appended to earlier ones
Bind(observer, step) == Observer(observer.f, Append(observer.bound, step))

\* observer(step): the arguments the function f receives
Arguments(observer, step) == Append(observer.bound, step)

\* mutant of Invoke: a notification for the container of the notification
\* before it is merged into that one
InvokeCoalesced(n, observer, step) ==
    IF chain # << >> /\ chain[Len(chain)].target = step.target
    THEN [calls |-> n, chain |-> Arguments(observer, step)]
    ELSE [calls |-> n + 1, chain |-> Arguments(observer, step)]

\* mutant of Invoke: f runs twice
InvokeTwice(n, observer, step) ==
    [calls |-> n + 2, chain |-> Arguments(observer, step)]

\* observer(step): f runs once with those arguments
Invoke(n, observer, step) ==
    [calls |-> n + 1, chain |-> Arguments(observer, step)]

\* mutant of Step: value and oldValue change places
StepSwapped(target, prop, value, oldValue, receiver) ==
    [target |-> target, prop |-> prop, value |-> oldValue,
     oldValue |-> value, receiver |-> receiver]

\* the Access Step {target, prop, value, oldValue, receiver}
Step(target, prop, value, oldValue, receiver) ==
    [target |-> target, prop |-> prop, value |-> value,
     oldValue |-> oldValue, receiver |-> receiver]

\* the values a client supplies as observer
Observers == {Fn, Undefined, Str(1), Obj(1)}

\* the values a client writes
Written(h) == {Undefined, Str(2), Obj(Len(h))}

(***************************************************************************)
(* The data the client wraps, heap[1] being the root.  Nested is the       *)
(* nested plain data of the tests.  Instance has what the class test has:  *)
(* a prototype that supplies a property, a property defined non-writable   *)
(* and non-configurable, and a null.                                       *)
(***************************************************************************)
Nested ==
    << Plain(Data(Str(1)), Data(Obj(2))),
       Plain(Data(Obj(3)), Data(Str(1))),
       Plain(Data(Str(1)), Absent) >>

Instance ==
    << Plain(Data(Null), Data(Obj(2))),
       Derived(3, Absent, Attr(Str(1), FALSE, FALSE)),
       Plain(Data(Str(1)), Absent) >>

InitHeaps == {Nested, Instance}

Init ==
    /\ impl \in {"ProxyObserver", "proxyobserver"}
    /\ heap \in InitHeaps
    /\ proxies = << >>
    /\ pend = << >>
    /\ calls = 0
    /\ chain = << >>
    /\ ret = Done("init", 0, NoProp, Undefined, Undefined, 0)

\* mutant of ProxyObserver: the typeof test of the observer is left out
ProxyObserverUnchecked(target, observer) ==
    IF target.t # "object" THEN [ok |-> FALSE, proxy |-> << >>]
    ELSE [ok |-> TRUE, proxy |-> <<[target |-> target.x, observer |-> observer]>>]

(***************************************************************************)
(* function ProxyObserver(target, observer): the wrapper, or the TypeError *)
(* of the observer test or of new Proxy over a non-object.                 *)
(***************************************************************************)
ProxyObserver(target, observer) ==
    IF TypeOf(observer.f) # "function" THEN [ok |-> FALSE, proxy |-> << >>]
    ELSE IF target.t # "object" THEN [ok |-> FALSE, proxy |-> << >>]
    ELSE [ok |-> TRUE, proxy |-> <<[target |-> target.x, observer |-> observer]>>]

\* a wrapper the client holds: the Proxy object id over target with its
\* observer, reached from the root wrapper by reading the properties via
Held(id, r, via) ==
    [id |-> id, target |-> r.proxy[1].target,
     observer |-> r.proxy[1].observer, via |-> via]

\* mutant of Fresh: the nested Proxy object made first is kept and handed
\* out again by later reads
Cached(ps) == IF ps = << >> THEN 1 ELSE 2

\* the identity of the next Proxy object created
Fresh(ps) == Len(ps) + 1

\* the client's call ProxyObserver(data, f)
Wrap(o, f) ==
    /\ proxies = << >>
    /\ pend = << >>
    /\ LET r == ProxyObserver(Obj(o), Observer(f, << >>)) IN
       IF r.ok
       THEN /\ proxies' = <<Held(Fresh(proxies), r, << >>)>>
            /\ ret' = Done("wrap", 0, NoProp, f, Px(1), 0)
       ELSE /\ proxies' = proxies
            /\ ret' = Done("wrap", 0, NoProp, f, TypeError, 0)
    /\ UNCHANGED <<impl, heap, pend, calls, chain>>

\* mutant of IsNested: every value read is wrapped
AlwaysNested(m, value) == TRUE

\* the test of the get trap that decides whether the value is wrapped
IsNested(m, value) ==
    IF m = "ProxyObserver" THEN TypeOf(value) = "object"
    ELSE TypeOf(value) = "object" /\ value # Null

\* mutant of get: the step is added to the observer of the wrapper read
\* from, in place, and the nested wrapper shares that observer
getExtendingInPlace(i, p) ==
    /\ i \in 1..Len(proxies)
    /\ LET target == proxies[i].target
           observer == proxies[i].observer
           value == ReflectGet(heap, target, p)
           extended == Bind(observer, Step(target, p, value, Undefined, Px(i)))
           r == ProxyObserver(value, extended)
       IN IF IsNested(impl, value)
          THEN IF r.ok
               THEN /\ Len(proxies) + calls < MaxOps
                    /\ proxies' = Append([proxies EXCEPT ![i].observer = extended],
                           Held(Fresh(proxies), r, Append(proxies[i].via, p)))
                    /\ ret' = Done("get", i, p, Undefined, Px(Len(proxies) + 1), 0)
               ELSE /\ proxies' = proxies
                    /\ ret' = Done("get", i, p, Undefined, TypeError, 0)
          ELSE /\ proxies' = proxies
               /\ ret' = Done("get", i, p, Undefined, value, 0)
    /\ UNCHANGED <<impl, heap, pend, calls, chain>>

\* mutant of get: the read calls the observer with its step
getNotifying(i, p) ==
    /\ i \in 1..Len(proxies)
    /\ LET target == proxies[i].target
           observer == proxies[i].observer
           value == ReflectGet(heap, target, p)
           step == Step(target, p, value, Undefined, Px(i))
           r == ProxyObserver(value, Bind(observer, step))
       IN /\ Len(proxies) + calls < MaxOps
          /\ calls' = Invoke(calls, observer, step).calls
          /\ chain' = Invoke(calls, observer, step).chain
          /\ IF IsNested(impl, value) /\ r.ok
             THEN /\ proxies' = Append(proxies,
                         Held(Fresh(proxies), r, Append(proxies[i].via, p)))
                  /\ ret' = Done("get", i, p, Undefined, Px(Len(proxies) + 1), 0)
             ELSE /\ proxies' = proxies
                  /\ ret' = Done("get", i, p, Undefined, value, 0)
    /\ UNCHANGED <<impl, heap, pend>>

\* get: (target, prop, receiver) => ...   on the wrapper the client holds
\* as i; a wrapper returned is held as the next one
get(i, p) ==
    /\ i \in 1..Len(proxies)
    /\ LET target == proxies[i].target
           observer == proxies[i].observer
           value == ReflectGet(heap, target, p)
           r == ProxyObserver(value,
                    Bind(observer, Step(target, p, value, Undefined, Px(i))))
       IN IF IsNested(impl, value)
          THEN IF r.ok
               THEN /\ Len(proxies) + calls < MaxOps
                    /\ proxies' = Append(proxies,
                           Held(Fresh(proxies), r, Append(proxies[i].via, p)))
                    /\ ret' = Done("get", i, p, Undefined, Px(Len(proxies) + 1), 0)
               ELSE /\ proxies' = proxies
                    /\ ret' = Done("get", i, p, Undefined, TypeError, 0)
          ELSE /\ proxies' = proxies
               /\ ret' = Done("get", i, p, Undefined, value, 0)
    /\ UNCHANGED <<impl, heap, pend, calls, chain>>

\* mutant of StrictEquals: the test is left out
NeverEquals(oldValue, value) == FALSE

\* oldValue === value
StrictEquals(oldValue, value) == oldValue = value

\* mutant of Frame: the trap goes on with the root container
FrameOnRoot(op, i, target, p, v, before) ==
    [op |-> op, px |-> i, target |-> 1, prop |-> p, value |-> v,
     before |-> before]

\* a trap that called the observer and waits for it to return; before is
\* the number of invocations when the trap was entered
Frame(op, i, target, p, v, before) ==
    [op |-> op, px |-> i, target |-> target, prop |-> p, value |-> v,
     before |-> before]

\* mutant of set: Reflect.set runs before the observer is called
setBeforeObserver(i, p, v) ==
    /\ i \in 1..Len(proxies)
    /\ LET target == proxies[i].target
           oldValue == ReflectGet(heap, target, p)
           fired == Invoke(calls, proxies[i].observer,
                           Step(target, p, v, oldValue, Px(i)))
       IN IF StrictEquals(oldValue, v)
          THEN /\ ret' = Done("set", i, p, v, Bool(TRUE), 0)
               /\ UNCHANGED <<heap, pend, calls, chain>>
          ELSE /\ Len(proxies) + calls < MaxOps
               /\ heap' = ReflectSet(heap, target, p, v).heap
               /\ calls' = fired.calls
               /\ chain' = fired.chain
               /\ pend' = Append(pend, Frame("set", i, target, p, v, calls))
               /\ ret' = Done("observer", i, p, v, Undefined, fired.calls - calls)
    /\ UNCHANGED <<impl, proxies>>

\* set: (target, prop, value, receiver) => ...   on wrapper i, up to the
\* call of the observer
set(i, p, v) ==
    /\ i \in 1..Len(proxies)
    /\ LET target == proxies[i].target
           oldValue == ReflectGet(heap, target, p)
           fired == Invoke(calls, proxies[i].observer,
                           Step(target, p, v, oldValue, Px(i)))
       IN IF StrictEquals(oldValue, v)
          THEN /\ ret' = Done("set", i, p, v, Bool(TRUE), 0)
               /\ UNCHANGED <<pend, calls, chain>>
          ELSE /\ Len(proxies) + calls < MaxOps
               /\ calls' = fired.calls
               /\ chain' = fired.chain
               /\ pend' = Append(pend, Frame("set", i, target, p, v, calls))
               /\ ret' = Done("observer", i, p, v, Undefined, fired.calls - calls)
    /\ UNCHANGED <<impl, heap, proxies>>

\* mutant of deleteProperty: the property is deleted without a notification
deleteSilently(i, p) ==
    /\ i \in 1..Len(proxies)
    /\ LET r == ReflectDeleteProperty(heap, proxies[i].target, p)
       IN /\ heap' = r.heap
          /\ ret' = Done("delete", i, p, Undefined, Bool(r.ok), 0)
    /\ UNCHANGED <<impl, proxies, pend, calls, chain>>

\* mutant of deleteProperty: the test prop in target is left out
deleteWithoutTest(i, p) ==
    /\ i \in 1..Len(proxies)
    /\ LET target == proxies[i].target
           oldValue == ReflectGet(heap, target, p)
           fired == Invoke(calls, proxies[i].observer,
                           Step(target, p, Undefined, oldValue, Undefined))
       IN /\ Len(proxies) + calls < MaxOps
          /\ calls' = fired.calls
          /\ chain' = fired.chain
          /\ pend' = Append(pend, Frame("delete", i, target, p, Undefined, calls))
          /\ ret' = Done("observer", i, p, Undefined, Undefined,
                         fired.calls - calls)
    /\ UNCHANGED <<impl, heap, proxies>>

\* deleteProperty: (target, prop) => ...   on wrapper i, up to the call of
\* the observer
deleteProperty(i, p) ==
    /\ i \in 1..Len(proxies)
    /\ LET target == proxies[i].target
           oldValue == ReflectGet(heap, target, p)
           fired == Invoke(calls, proxies[i].observer,
                           Step(target, p, Undefined, oldValue, Undefined))
       IN IF HasProperty(heap, target, p)
          THEN /\ Len(proxies) + calls < MaxOps
               /\ calls' = fired.calls
               /\ chain' = fired.chain
               /\ pend' = Append(pend, Frame("delete", i, target, p, Undefined, calls))
               /\ ret' = Done("observer", i, p, Undefined, Undefined,
                              fired.calls - calls)
          ELSE /\ ret' = Done("delete", i, p, Undefined, Bool(FALSE), 0)
               /\ UNCHANGED <<pend, calls, chain>>
    /\ UNCHANGED <<impl, heap, proxies>>

\* proxy.removeProperty(name), a method of the wrapped instance called on
\* the wrapper: the get trap hands out the function as it is and the method
\* runs Reflect.deleteProperty(this, name) with the wrapper as this
removeProperty(i, name) ==
    /\ ~IsNested(impl, Fn)
    /\ deleteProperty(i, name)

\* what the deleteProperty trap returns after Reflect.deleteProperty
DeleteResult(m, ok) == IF m = "ProxyObserver" THEN FALSE ELSE ok

\* the rest of a waiting trap, once the observer has returned:
\* return Reflect.set(target, prop, value, receiver) of the set trap,
\* Reflect.deleteProperty(target, prop) of the deleteProperty trap
Resume(h, m, fr) ==
    IF fr.op = "set"
    THEN LET r == ReflectSet(h, fr.target, fr.prop, fr.value)
         IN [heap |-> r.heap, res |-> Bool(r.ok)]
    ELSE LET r == ReflectDeleteProperty(h, fr.target, fr.prop)
         IN [heap |-> r.heap, res |-> Bool(DeleteResult(m, r.ok))]

\* mutant of observerReturns: the outermost waiting trap goes on first
observerReturnsOutermost ==
    /\ pend # << >>
    /\ LET fr == pend[1]
           r == Resume(heap, impl, fr)
       IN /\ heap' = r.heap
          /\ ret' = Done(fr.op, fr.px, fr.prop, fr.value, r.res, 1)
    /\ pend' = Tail(pend)
    /\ UNCHANGED <<impl, proxies, calls, chain>>

\* the observer returns to the innermost waiting trap
observerReturns ==
    /\ pend # << >>
    /\ pend[Len(pend)].op \in {"set", "delete"}
    /\ LET fr == pend[Len(pend)]
           r == Resume(heap, impl, fr)
       IN /\ heap' = r.heap
          /\ ret' = Done(fr.op, fr.px, fr.prop, fr.value, r.res, 1)
    /\ pend' = SubSeq(pend, 1, Len(pend) - 1)
    /\ UNCHANGED <<impl, proxies, calls, chain>>

\* mutant of observerThrows: the trap makes its mutation all the same
observerThrowsAfterMutation ==
    /\ pend # << >>
    /\ pend[Len(pend)].op \in {"set", "delete"}
    /\ LET fr == pend[Len(pend)]
       IN /\ heap' = Resume(heap, impl, fr).heap
          /\ ret' = Done(fr.op, fr.px, fr.prop, fr.value, Thrown, 1)
    /\ pend' = SubSeq(pend, 1, Len(pend) - 1)
    /\ UNCHANGED <<impl, proxies, calls, chain>>

\* the observer throws: the innermost waiting trap is left without its
\* mutation and the error reaches the caller of the operation
observerThrows ==
    /\ pend # << >>
    /\ pend[Len(pend)].op \in {"set", "delete"}
    /\ LET fr == pend[Len(pend)]
       IN ret' = Done(fr.op, fr.px, fr.prop, fr.value, Thrown, 1)
    /\ pend' = SubSeq(pend, 1, Len(pend) - 1)
    /\ UNCHANGED <<impl, heap, proxies, calls, chain>>

Next ==
    \/ \E f \in Observers : Wrap(1, f)
    \/ \E i \in 1..Len(proxies), p \in Props : get(i, p)
    \/ \E i \in 1..Len(proxies), p \in Props, v \in Written(heap) : set(i, p, v)
    \/ \E i \in 1..Len(proxies), p \in Props : deleteProperty(i, p)
    \/ \E i \in 1..Len(proxies), p \in Props : removeProperty(i, p)
    \/ observerReturns
    \/ observerThrows

Spec == Init /\ [][Next]_vars

(***************************************************************************)
(* The claims.                                                             *)
(***************************************************************************)
PathOf(c) == [k \in 1..Len(c) |-> c[k].prop]

\* C1: every observer invocation made by a write or a delete through a
\* wrapper that was reached from the root wrapper by reading the container
\* properties p1..pd carries exactly d+1 steps, root first, whose props are
\* p1..pd followed by the mutated property.
C1_ChainIsPathFromRoot ==
    ret.op = "observer" =>
        /\ Len(chain) = Len(proxies[ret.px].via) + 1
        /\ PathOf(chain) = Append(proxies[ret.px].via, ret.prop)

\* a write or delete two containers below the root, along distinct props
C1_Witness ==
    /\ ret.op = "observer"
    /\ Len(proxies[ret.px].via) = 2
    /\ chain[1].prop # chain[2].prop

\* the step of the behaviour is the call of the observer by a trap
Called == ret'.op = "observer"

\* the step is a write or delete that returns without calling the observer
Immediate == ret'.op \in {"set", "delete"} /\ pend' = pend

\* the step is the return of a write or delete whose observer call is over
Returned == ret'.op \in {"set", "delete"} /\ Len(pend') < Len(pend)

\* the operation of the step changes something: a write of a value that is
\* not the current one, a delete of a property that is there
Effective(op) ==
    LET target == proxies[ret'.px].target IN
    IF op = "set" THEN ReflectGet(heap, target, ret'.prop) # ret'.val
    ELSE HasProperty(heap, target, ret'.prop)

\* C2 as stated: exactly one observer invocation per write and per delete
\* performed through a wrapper.
C2_OneInvocationPerWriteOrDelete ==
    ret.op \in {"set", "delete"} => ret.fired = 1

\* C2 amended: exactly one observer invocation per write that changes the
\* value and per delete of a property that is there, at any depth and after
\* any operations; a write of the current value and a delete of an absent
\* property make none, and no other operation invokes the observer.
C2_OneInvocationPerEffectiveMutation ==
    [][ /\ Called => /\ calls' = calls + 1
                     /\ ret'.fired = 1
                     /\ Effective(pend'[Len(pend')].op)
        /\ Immediate => /\ calls' = calls
                        /\ ret'.fired = 0
                        /\ ~Effective(ret'.op)
        /\ Returned => calls' = calls /\ ret'.fired = 1
        /\ ret'.op \in {"wrap", "get"} => calls' = calls ]_vars

\* a delete or write two containers below the root has returned after its
\* one invocation, the second invocation of the run
C2_Witness ==
    /\ ret.op \in {"set", "delete"}
    /\ ret.fired = 1
    /\ proxies[ret.px].via # << >>
    /\ calls = 2

\* C3: when the observer is called for a write or delete of prop on target,
\* target still holds the value the leaf step reports as oldValue, not the
\* new one, and target changes only in the step in which a trap resumes
\* after its observer call has returned.
C3_NotifiedBeforeMutation ==
    [][ /\ Called =>
            LET fr == pend'[Len(pend')]
                leaf == chain'[Len(chain')]
            IN /\ heap' = heap
               /\ leaf.target = fr.target /\ leaf.prop = fr.prop
               /\ leaf.oldValue = ReflectGet(heap', fr.target, fr.prop)
               /\ fr.op = "set" =>
                      /\ leaf.value = fr.value
                      /\ ReflectGet(heap', fr.target, fr.prop) # fr.value
               /\ fr.op = "delete" => HasProperty(heap', fr.target, fr.prop)
        /\ heap' # heap => Returned ]_vars

\* inside the observer of a write: the old value is still on the target
C3_Witness ==
    /\ ret.op = "observer"
    /\ pend[Len(pend)].op = "set"
    /\ chain[Len(chain)].oldValue = Str(1)
    /\ ReflectGet(heap, pend[Len(pend)].target, ret.prop) = Str(1)
    /\ ret.val = Str(2)

\* the step enters the set trap
SetEntered ==
    \/ ret'.op = "set" /\ pend' = pend
    \/ Called /\ pend'[Len(pend')].op = "set"

\* C4: a write through a wrapper of the value the property already has
\* invokes no observer, leaves the containers unchanged and returns true.
C4_IdenticalWriteIsSilent ==
    [][ (SetEntered /\ ~Effective("set")) =>
            /\ ret'.op = "set"
            /\ ret'.res = Bool(TRUE)
            /\ calls' = calls /\ chain' = chain /\ pend' = pend
            /\ heap' = heap ]_vars

\* the string already stored was written again and nothing fired
C4_Witness ==
    /\ ret.op = "set" /\ ret.fired = 0
    /\ ret.val = Str(2)
    /\ calls = 1
    /\ ReflectGet(heap, proxies[ret.px].target, ret.prop) = Str(2)

\* the step enters the deleteProperty trap
DeleteEntered ==
    \/ ret'.op = "delete" /\ pend' = pend
    \/ Called /\ pend'[Len(pend')].op = "delete"

\* the step is the normal return of a delete whose observer has returned
DeleteReturned == Returned /\ ret'.op = "delete" /\ ret'.res # Thrown

\* what every delete does before it returns: an existing property (prop in
\* target) fires one notification with the leaf {target, prop, undefined,
\* prior value, undefined}; an absent one fires nothing and changes nothing
DeleteNotifies ==
    LET target == proxies[ret'.px].target IN
    /\ (DeleteEntered /\ HasProperty(heap, target, ret'.prop)) =>
           /\ Called
           /\ calls' = calls + 1
           /\ heap' = heap
           /\ chain'[Len(chain')] =
                  Step(target, ret'.prop, Undefined,
                       ReflectGet(heap, target, ret'.prop), Undefined)
    /\ (DeleteEntered /\ ~HasProperty(heap, target, ret'.prop)) =>
           /\ ret'.op = "delete"
           /\ calls' = calls /\ chain' = chain /\ pend' = pend
           /\ heap' = heap

\* C5 as stated: deleting an existing property fires one notification with
\* value undefined, oldValue the prior value and receiver undefined, and
\* the property is absent from the target afterwards; deleting an absent
\* property fires nothing and leaves the target unchanged.
C5_DeletedPropertyIsAbsent ==
    [][ /\ DeleteNotifies
        /\ DeleteReturned =>
               ~HasProperty(heap', proxies[ret'.px].target, ret'.prop) ]_vars

\* C5 amended: deleting a property that is found on the target fires one
\* notification with value undefined, oldValue the prior value and receiver
\* undefined; afterwards the property is no longer an own property of the
\* target when it was own and configurable, and the target is unchanged
\* when it was non-configurable or supplied by the prototype; deleting an
\* absent property fires nothing and leaves the target unchanged.
C5_DeleteRemovesConfigurableOwn ==
    [][ /\ DeleteNotifies
        /\ DeleteReturned =>
               LET target == proxies[ret'.px].target
                   slot == heap[target].props[ret'.prop]
               IN IF slot.has /\ slot.c
                  THEN /\ ~OwnHas(heap', target, ret'.prop)
                       /\ \A o \in 1..Len(heap), q \in Props :
                              <<o, q>> # <<target, ret'.prop>> =>
                                  heap'[o].props[q] = heap[o].props[q]
                  ELSE heap' = heap ]_vars

\* a delete of a configurable own property below the root has returned
C5_Witness ==
    /\ ret.op = "delete" /\ ret.fired = 1 /\ ret.res # Thrown
    /\ proxies[ret.px].via # << >>
    /\ chain[Len(chain)].prop = ret.prop
    /\ chain[Len(chain)].oldValue = Str(1)
    /\ ~HasProperty(heap, proxies[ret.px].target, ret.prop)

\* C6 as stated: a write or delete through a wrapper changes the target
\* exactly as the same write or delete made on the target itself, and a
\* read through a wrapper agrees with the read of the target (the value, or
\* a wrapper over the container that is the value).
C6_WrapperActsAsTarget ==
    [][ LET target == proxies[ret'.px].target
            value == ReflectGet(heap, target, ret'.prop)
        IN /\ ((Immediate \/ Returned) /\ ret'.op = "set" /\ ret'.res # Thrown) =>
                  heap' = ReflectSet(heap, target, ret'.prop, ret'.val).heap
           /\ ((Immediate \/ Returned) /\ ret'.op = "delete" /\ ret'.res # Thrown) =>
                  heap' = ReflectDeleteProperty(heap, target, ret'.prop).heap
           /\ ret'.op = "get" =>
                  IF value.t = "object"
                  THEN /\ ret'.res.t = "proxy"
                       /\ proxies'[ret'.res.x].target = value.x
                  ELSE ret'.res = value ]_vars

\* C7: reading through a wrapper a property whose value is a scalar returns
\* exactly the value the target has there.
C7_ScalarReadIsTransparent ==
    (ret.op = "get" /\ TypeOf(ReflectGet(heap, proxies[ret.px].target, ret.prop)) # "object")
        => ret.res = ReflectGet(heap, proxies[ret.px].target, ret.prop)

\* a string was read through a nested wrapper
C7_Witness ==
    /\ ret.op = "get" /\ ret.res = Str(1)
    /\ proxies[ret.px].via # << >>

\* C8: ProxyObserver called with an observer that is not a function throws
\* the TypeError, creates no proxy, invokes nothing and leaves the target
\* unchanged.
C8_NonFunctionObserverRejected ==
    [][ (ret'.op = "wrap" /\ TypeOf(ret'.val) # "function") =>
            /\ ret'.res = TypeError
            /\ proxies' = << >>
            /\ UNCHANGED <<heap, calls, chain, pend>> ]_vars

\* the wrap of a non-function observer has thrown
C8_Witness ==
    /\ ret.op = "wrap" /\ ret.val = Obj(1) /\ ret.res = TypeError
    /\ proxies = << >>

\* C9: a read through a wrapper, at any depth, invokes no observer and
\* changes no container; at most it adds one wrapper whose observer is the
\* observer of the wrapper read from with one more step bound.
C9_ReadsAreSilent ==
    [][ ret'.op = "get" =>
            /\ UNCHANGED <<heap, calls, chain, pend>>
            /\ \/ proxies' = proxies
               \/ /\ Len(proxies') = Len(proxies) + 1
                  /\ SubSeq(proxies', 1, Len(proxies)) = proxies
                  /\ ret'.res = Px(Len(proxies'))
                  /\ Len(proxies'[Len(proxies')].observer.bound) =
                         Len(proxies[ret'.px].observer.bound) + 1 ]_vars

\* a container two levels below the root was read, with nothing fired
C9_Witness ==
    /\ ret.op = "get" /\ ret.res.t = "proxy"
    /\ Len(proxies[ret.res.x].via) = 2
    /\ calls = 0

\* C10: two successive reads of the same container property through a
\* wrapper give two distinct Proxy objects over the same container, with
\* the same bound steps, so both mutate that container and fire alike.
C10_FreshWrapperPerRead ==
    [][ ( /\ ret.op = "get" /\ ret.res.t = "proxy"
          /\ ret'.op = "get" /\ ret'.px = ret.px /\ ret'.prop = ret.prop
          /\ Len(proxies') > Len(proxies) ) =>
            /\ ret'.res.t = "proxy"
            /\ ret'.res.x # ret.res.x
            /\ LET a == proxies'[ret.res.x]
                   b == proxies'[ret'.res.x]
               IN /\ a.id # b.id
                  /\ a.target = b.target
                  /\ a.observer = b.observer
                  /\ a.via = b.via ]_vars

\* the same nested property was read twice and two wrappers are held
C10_Witness ==
    /\ Len(proxies) = 3
    /\ ret.op = "get" /\ ret.res = Px(3)
    /\ proxies[2].via = proxies[3].via
    /\ proxies[2].target = proxies[3].target
    /\ proxies[2].id # proxies[3].id

\* C11 as stated: reading through a wrapper a property whose value is null
\* or another non-container value returns that value unchanged, creates no
\* nested wrapper and raises no error.
C11_NonContainerReadIsTransparent ==
    [][ LET value == ReflectGet(heap, proxies[ret'.px].target, ret'.prop)
        IN (ret'.op = "get" /\ value.t # "object") =>
               /\ ret'.res = value
               /\ proxies' = proxies ]_vars

\* C12 as stated: a write of the identical value and a delete of an absent
\* property complete without notification and report success to the caller.
C12_NoOpsReportSuccess ==
    [][ Immediate =>
            /\ ret'.res = Bool(TRUE)
            /\ UNCHANGED <<heap, calls, chain, pend>> ]_vars

\* the property the write would assign is there, on the target or on its
\* prototype chain, and is not writable
NonWritable(h, o, p) ==
    HasProperty(h, o, p) /\ ~h[Holder(h, o, p)].props[p].w

\* C13: a write through a wrapper to a property whose assignment fails
\* because it is not writable has invoked the observer exactly once, with
\* the leaf step {target, prop, the value written, the value held}, leaves
\* every container unchanged and returns false, the result of Reflect.set.
C13_FailedAssignmentIsReported ==
    [][ LET target == proxies[ret'.px].target
            nonWritable == NonWritable(heap, target, ret'.prop)
        IN /\ (Called /\ pend'[Len(pend')].op = "set" /\ nonWritable) =>
                  /\ calls' = calls + 1
                  /\ chain'[Len(chain')] =
                         Step(target, ret'.prop, ret'.val,
                              ReflectGet(heap, target, ret'.prop), Px(ret'.px))
           /\ (Returned /\ ret'.op = "set" /\ ret'.res # Thrown) =>
                  /\ ret'.fired = 1 /\ calls' = calls
                  /\ ret'.res = Bool(~nonWritable)
                  /\ nonWritable => heap' = heap ]_vars

\* the write of a new string to the non-writable property has returned
\* false after its one notification
C13_Witness ==
    /\ ret.op = "set" /\ ret.fired = 1 /\ ret.res = Bool(FALSE)
    /\ ret.val = Str(2)
    /\ calls = 1
    /\ chain[Len(chain)].value = Str(2)
    /\ ReflectGet(heap, proxies[ret.px].target, ret.prop) = Str(1)

(***************************************************************************)
(* Arrays behind a wrapper.  Array.prototype.push called on a wrapper      *)
(* reads length through the get trap, writes the element at the index      *)
(* length through the set trap and then writes length through the set      *)
(* trap.  Array.prototype.splice(at, 0, item) moves the elements from at   *)
(* on up by one, last first, through the get, set and deleteProperty       *)
(* traps, writes item at at and then writes length.  Here the observer     *)
(* only records; the client acts between the operations.                   *)
(***************************************************************************)

\* an activation of an array method with this = wrapper i: the length it
\* read, the index it inserts at, its argument, the invocations made before
\* it and the array it found
Call(op, i, target, len, at, v, before, was) ==
    [op |-> op, px |-> i, target |-> target, len |-> len, at |-> at,
     value |-> v, before |-> before, was |-> was]

\* the innermost activation is that of the array method op
Running(op) == pend # << >> /\ pend[Len(pend)].op = op

\* data whose property b is an array
Lists ==
    { << Plain(Data(Str(1)), Data(Obj(2))), Arr(elems) >> :
         elems \in {<< >>, <<Str(1)>>, <<Str(1), Str(2)>>} }

\* the values the client writes to the data and hands to push and splice
Elements == {Undefined, Str(2)}

InitArrays ==
    /\ impl \in {"ProxyObserver", "proxyobserver"}
    /\ heap \in Lists
    /\ proxies = << >>
    /\ pend = << >>
    /\ calls = 0
    /\ chain = << >>
    /\ ret = Done("init", 0, NoProp, Undefined, Undefined, 0)

\* proxy.push(v): the get trap hands out the function and the length as
\* they are, neither being wrapped
push(i, v) ==
    /\ i \in 1..Len(proxies)
    /\ pend = << >>
    /\ LET target == proxies[i].target
           len == ReflectGet(heap, target, "length")
       IN /\ IsArray(heap, target)
          /\ ~IsNested(impl, Fn) /\ ~IsNested(impl, len)
          /\ len.x < MaxLen
          /\ pend' = <<Call("push", i, target, len.x, len.x, v, calls, heap[target])>>
          /\ ret' = Done("call", i, "push", v, Undefined, 0)
    /\ UNCHANGED <<impl, heap, proxies, calls, chain>>

\* push: Set(O, ToString(len), v, true) through the set trap
pushSetsIndex ==
    /\ Running("push")
    /\ ret.op = "call"
    /\ LET c == pend[Len(pend)] IN set(c.px, ToString(c.len), c.value)

\* push: Set(O, "length", len + 1, true) through the set trap
pushSetsLength ==
    /\ Running("push")
    /\ LET c == pend[Len(pend)]
       IN /\ ret.op = "set" /\ ret.prop = ToString(c.len)
          /\ ret.res = Bool(TRUE)
          /\ set(c.px, "length", Num(c.len + 1))

\* push returns the new length
pushReturns ==
    /\ Running("push")
    /\ LET c == pend[Len(pend)]
       IN /\ ret.op = "set" /\ ret.prop = "length"
          /\ ret.res = Bool(TRUE)
          /\ ret' = Done("push", c.px, ToString(c.len), c.value,
                         Num(c.len + 1), calls - c.before)
    /\ pend' = SubSeq(pend, 1, Len(pend) - 1)
    /\ UNCHANGED <<impl, heap, proxies, calls, chain>>

\* a set trap of push threw or returned false: push throws
pushThrows ==
    /\ Running("push")
    /\ LET c == pend[Len(pend)]
       IN /\ ret.op = "set"
          /\ ret.res \in {Bool(FALSE), Thrown}
          /\ ret' = Done("push", c.px, ToString(c.len), c.value,
                         IF ret.res = Thrown THEN Thrown ELSE TypeError,
                         calls - c.before)
    /\ pend' = SubSeq(pend, 1, Len(pend) - 1)
    /\ UNCHANGED <<impl, heap, proxies, calls, chain>>

\* no element of the array is a container (the get trap would hand splice a
\* wrapper to store)
Scalars(h, o) ==
    \A q \in DOMAIN h[o].props : TypeOf(h[o].props[q].v) # "object"

\* proxy.splice(at, 0, v): the get trap hands out the function, the length
\* and the constructor as they are
splice(i, at, v) ==
    /\ i \in 1..Len(proxies)
    /\ pend = << >>
    /\ LET target == proxies[i].target
           len == ReflectGet(heap, target, "length")
       IN /\ IsArray(heap, target)
          /\ Scalars(heap, target)
          /\ ~IsNested(impl, Fn) /\ ~IsNested(impl, len)
          /\ len.x < MaxLen
          /\ at \in 0..len.x
          /\ pend' = <<Call("splice", i, target, len.x, at, v, calls, heap[target])>>
          /\ ret' = Done("call", i, "splice", v, Undefined, 0)
    /\ UNCHANGED <<impl, heap, proxies, calls, chain>>

\* the trap splice called last has returned true, or none was called yet
Continues(r) ==
    \/ r.op = "call"
    \/ r.op \in {"set", "delete"} /\ r.prop # "length" /\ r.res = Bool(TRUE)

\* the index splice dealt with last, counting down from len + 1
Last(c, r) == IF r.op = "call" THEN c.len + 1 ELSE Index(r.prop)

\* splice: the element at from = to - 1 is there: Set(O, to, Get(O, from), true)
spliceMoves ==
    /\ Running("splice")
    /\ Continues(ret)
    /\ LET c == pend[Len(pend)]
           to == Last(c, ret) - 1
       IN /\ to > c.at
          /\ HasProperty(heap, c.target, ToString(to - 1))
          /\ ~IsNested(impl, ReflectGet(heap, c.target, ToString(to - 1)))
          /\ set(c.px, ToString(to), ReflectGet(heap, c.target, ToString(to - 1)))

\* splice: the element at from = to - 1 is a hole: DeletePropertyOrThrow(O, to)
spliceDeletes ==
    /\ Running("splice")
    /\ Continues(ret)
    /\ LET c == pend[Len(pend)]
           to == Last(c, ret) - 1
       IN /\ to > c.at
          /\ ~HasProperty(heap, c.target, ToString(to - 1))
          /\ deleteProperty(c.px, ToString(to))

\* splice: Set(O, ToString(at), item, true)
spliceInserts ==
    /\ Running("splice")
    /\ Continues(ret)
    /\ LET c == pend[Len(pend)]
       IN /\ Last(c, ret) - 1 = c.at
          /\ set(c.px, ToString(c.at), c.value)

\* splice: Set(O, "length", len + 1, true)
spliceSetsLength ==
    /\ Running("splice")
    /\ Continues(ret)
    /\ LET c == pend[Len(pend)]
       IN /\ Last(c, ret) = c.at
          /\ set(c.px, "length", Num(c.len + 1))

\* splice returns (the empty array of the elements deleted)
spliceReturns ==
    /\ Running("splice")
    /\ LET c == pend[Len(pend)]
       IN /\ ret.op = "set" /\ ret.prop = "length"
          /\ ret.res = Bool(TRUE)
          /\ ret' = Done("splice", c.px, ToString(c.at), c.value,
                         Obj(0), calls - c.before)
    /\ pend' = SubSeq(pend, 1, Len(pend) - 1)
    /\ UNCHANGED <<impl, heap, proxies, calls, chain>>

\* a trap of splice threw or returned false: splice throws
spliceThrows ==
    /\ Running("splice")
    /\ LET c == pend[Len(pend)]
       IN /\ ret.op \in {"set", "delete"}
          /\ ret.res \in {Bool(FALSE), Thrown}
          /\ ret' = Done("splice", c.px, ToString(c.at), c.value,
                         IF ret.res = Thrown THEN Thrown ELSE TypeError,
                         calls - c.before)
    /\ pend' = SubSeq(pend, 1, Len(pend) - 1)
    /\ UNCHANGED <<impl, heap, proxies, calls, chain>>

\* the keys the client uses on wrapper i
KeysOf(i) == DOMAIN heap[proxies[i].target].props

NextArrays ==
    \/ \E f \in Observers : Wrap(1, f)
    \/ \E i \in 1..Len(proxies) : \E p \in KeysOf(i) : pend = << >> /\ get(i, p)
    \/ \E i \in 1..Len(proxies) : \E p \in KeysOf(i) \ {"length"} :
           \E v \in Elements : pend = << >> /\ set(i, p, v)
    \/ \E i \in 1..Len(proxies) : \E p \in KeysOf(i) :
           pend = << >> /\ deleteProperty(i, p)
    \/ \E i \in 1..Len(proxies), v \in Elements : push(i, v)
    \/ pushSetsIndex
    \/ pushSetsLength
    \/ pushReturns
    \/ pushThrows
    \/ \E i \in 1..Len(proxies), at \in 0..MaxLen, v \in Elements :
           splice(i, at, v)
    \/ spliceMoves
    \/ spliceDeletes
    \/ spliceInserts
    \/ spliceSetsLength
    \/ spliceReturns
    \/ spliceThrows
    \/ observerReturns
    \/ observerThrows

SpecArrays == InitArrays /\ [][NextArrays]_vars

\* C14 as stated: push of one element through the wrapper of a nested array
\* of length n makes exactly one notification, whose path ends with the
\* index n as a string and whose leaf has the element as value and
\* undefined as oldValue; afterwards the array has the element appended.
C14_PushNotifiesTheIndexOnce ==
    [][ (ret'.op = "push" /\ ret'.res.t = "number") =>
            LET c == pend[Len(pend)]
                leaf == chain'[Len(chain')]
            IN /\ ret'.fired = 1
               /\ PathOf(chain') = Append(proxies[c.px].via, ToString(c.len))
               /\ leaf.value = c.value /\ leaf.oldValue = Undefined
               /\ heap'[c.target] = ArrayDefine(c.was, ToString(c.len), c.value)
      ]_vars

(***************************************************************************)
(* lib/makeReference.js: makeReference(observed, reference).  The client   *)
(* hands it a chain (in the variable chain) and the root container.        *)
(***************************************************************************)

\* while (node = chain.shift()) { ... }: [heap, res], res the reference
\* reached or the TypeError of the in operator on a value that is no object
RECURSIVE Walk(_, _, _)
Walk(h, steps, reference) ==
    IF steps = << >> THEN [heap |-> h, res |-> reference]
    ELSE IF reference.t # "object" THEN [heap |-> h, res |-> TypeError]
    ELSE LET node == Head(steps)
             o == reference.x
             defined == IF HasProperty(h, o, node.prop) THEN h
                        ELSE [h EXCEPT ![o].props[node.prop] = Data(node.oldValue)]
         IN Walk(defined, Tail(steps), ReflectGet(defined, o, node.prop))

\* observed.chain.slice(0, -1)
SliceButLast(c) == SubSeq(c, 1, Len(c) - 1)

makeReference(h, observed, reference) == Walk(h, SliceButLast(observed), reference)

\* data with absent properties on the way
Sparse ==
    << Plain(Absent, Data(Obj(2))),
       Plain(Absent, Data(Obj(3))),
       Plain(Absent, Absent) >>

\* the steps a recorded chain is made of: what the walk reads of a step is
\* its prop and its oldValue
Recorded == {Step(1, p, Undefined, old, Undefined) : p \in Props, old \in {Undefined, Obj(3)}}

RECURSIVE Chains(_)
Chains(n) ==
    IF n = 0 THEN {<< >>}
    ELSE Chains(n - 1) \cup
         {Append(c, st) : c \in {d \in Chains(n - 1) : Len(d) = n - 1}, st \in Recorded}

InitReference ==
    /\ impl = "proxyobserver"
    /\ heap \in {Nested, Instance, Sparse}
    /\ proxies = << >>
    /\ pend = << >>
    /\ calls = 0
    /\ chain \in Chains(MaxChain)
    /\ ret = Done("init", 0, NoProp, Undefined, Undefined, 0)

\* the client's call makeReference({chain}, data)
Resolve ==
    /\ ret.op = "init"
    /\ LET r == makeReference(heap, chain, Obj(1))
       IN /\ heap' = r.heap
          /\ ret' = Done("makeReference", 0, NoProp, Obj(1), r.res, 0)
    /\ UNCHANGED <<impl, proxies, pend, calls, chain>>

NextReference == Resolve

SpecReference == InitReference /\ [][NextReference]_vars

\* the value found from reference along the props of steps, TypeError when
\* a value on the way is not a container
RECURSIVE Follow(_, _, _)
Follow(h, steps, reference) ==
    IF steps = << >> THEN reference
    ELSE IF reference.t # "object" THEN TypeError
    ELSE Follow(h, Tail(steps), ReflectGet(h, reference.x, Head(steps).prop))

\* every prop of steps is found on its level, walking from reference
RECURSIVE AllPresent(_, _, _)
AllPresent(h, steps, reference) ==
    \/ steps = << >>
    \/ /\ reference.t = "object"
       /\ HasProperty(h, reference.x, Head(steps).prop)
       /\ AllPresent(h, Tail(steps), ReflectGet(h, reference.x, Head(steps).prop))

\* C15 as stated: makeReference(observed, root) walks root through the prop
\* of every step of observed.chain but the last, materializing an absent
\* prop with the step's oldValue before it goes on, and returns the
\* innermost container reached; observed.chain is not modified, and root is
\* unchanged when every prop is present.
C15_ReferenceIsInnermostContainer ==
    [][ ret'.op = "makeReference" =>
            /\ chain' = chain
            /\ ret'.res.t = "object"
            /\ ret'.res = Follow(heap', SliceButLast(chain), Obj(1))
            /\ AllPresent(heap, SliceButLast(chain), Obj(1)) => heap' = heap ]_vars

\* the chain received last is the single step of a write of prop p through
\* the root wrapper i, and the property still has the value written
LastWriteOf(i, p) ==
    /\ proxies[i].via = << >>
    /\ Len(chain) = 1
    /\ chain[1].prop = p
    /\ chain[1].receiver = Px(i)
    /\ OwnHas(heap, proxies[i].target, p)
    /\ heap[proxies[i].target].props[p].c
    /\ ReflectGet(heap, proxies[i].target, p) = chain[1].value

C17_OnlyTheLeafDescribesAChange ==
    ret.op = "observer" =>
        LET leaf == chain[Len(chain)]
            fr == pend[Len(pend)]
        IN /\ chain[1].target = proxies[1].target
           /\ \A k \in 1..(Len(chain) - 1) :
                  /\ chain[k].oldValue = Undefined
                  /\ chain[k].value = Obj(chain[k + 1].target)
           /\ leaf.target = fr.target /\ leaf.prop = fr.prop
           /\ leaf.value = fr.value
           /\ fr.op = "delete" => leaf.value = Undefined
           /\ leaf.oldValue = ReflectGet(heap, leaf.target, leaf.prop)
           /\ ~HasProperty(heap, leaf.target, leaf.prop) => leaf.oldValue = Undefined

\* a write two containers below the root replaces a string by another
C17_Witness ==
    /\ ret.op = "observer"
    /\ Len(chain) = 3
    /\ chain[1].value = Obj(chain[2].target)
    /\ chain[3].oldValue = Str(1) /\ chain[3].value = Str(2)

\* C18: notifications are not batched, coalesced, deferred or reordered.
\* The observer is invoked only in the step in which a trap is entered for
\* a write that changes the value or a delete of a property that is there,
\* once, with the leaf step of that very operation; every such trap entry
\* invokes it; and when the trap returns, its one invocation and no other
\* has been made since it was entered.  So k such operations make k
\* invocations in the order of the operations, and push and splice, whose
\* element writes are set and deleteProperty trap calls made one after the
\* other, deliver one notification per effective element write in the
\* order of the writes.
C18_NotifiedPerMutationInOrder ==
    [][ /\ (calls' # calls \/ chain' # chain) =>
               LET fr == pend'[Len(pend')]
                   leaf == chain'[Len(chain')]
               IN /\ Called
                  /\ calls' = calls + 1
                  /\ Len(pend') = Len(pend) + 1
                  /\ fr.before = calls
                  /\ leaf.target = fr.target /\ leaf.prop = fr.prop
                  /\ leaf.value = fr.value
                  /\ leaf.oldValue = ReflectGet(heap, fr.target, fr.prop)
        /\ (SetEntered /\ Effective("set")) => Called
        /\ (DeleteEntered /\ Effective("delete")) => Called
        /\ Returned => /\ calls = pend[Len(pend)].before + 1
                       /\ calls' = calls
        /\ ret'.op \in {"push", "splice"} =>
               /\ calls' = calls
               /\ ret'.fired = calls - pend[Len(pend)].before ]_vars

\* splice has returned after two notifications, the first for the element
\* moved up and the second, received last, for the element inserted
C18_Witness ==
    /\ ret.op = "splice" /\ ret.res = Obj(0)
    /\ ret.fired = 2 /\ calls = 2
    /\ chain[Len(chain)].prop = ret.prop
    /\ chain[Len(chain)].value = ret.val
    /\ chain[Len(chain)].oldValue = Str(1)
    /\ ReflectGet(heap, proxies[ret.px].target, "1") = Str(1)

\* the step is the normal return of a write or delete during which the
\* observer made further writes or deletes that notified
ReturnedOverNested ==
    /\ Returned /\ ret'.res # Thrown
    /\ calls > pend[Len(pend)].before + 1

\* a write or delete made by the observer is intercepted like any other:
\* it notifies once with its own leaf before anything changes
NestedIsIntercepted ==
    /\ (pend # << >> /\ (SetEntered \/ DeleteEntered) /\ Effective(IF SetEntered THEN "set" ELSE "delete")) =>
           /\ Called
           /\ calls' = calls + 1
           /\ heap' = heap
           /\ pend' = Append(pend, pend'[Len(pend')])
           /\ chain'[Len(chain')].target = pend'[Len(pend')].target
           /\ chain'[Len(chain')].prop = pend'[Len(pend')].prop
           /\ chain'[Len(chain')].value = pend'[Len(pend')].value

\* the mutation of a nested operation is applied before that of the
\* operation around it: the trap that returns is the innermost one waiting,
\* and a step changes the containers only as that trap's Reflect call does
InnermostAppliesFirst ==
    /\ Returned =>
           LET fr == pend[Len(pend)]
           IN /\ pend' = SubSeq(pend, 1, Len(pend) - 1)
              /\ ret'.px = fr.px /\ ret'.prop = fr.prop /\ ret'.val = fr.value
              /\ heap' = IF ret'.res = Thrown THEN heap
                          ELSE Resume(heap, impl, fr).heap
    /\ heap' # heap => Returned

\* C19 as stated: a mutation the observer makes through a wrapper while it
\* is invoked is intercepted in the same way, notified and applied before
\* the outer mutation is applied, and when the outer operation returns the
\* outer property holds the outer value, or is absent for a delete.
C19_OuterMutationWins ==
    [][ /\ NestedIsIntercepted
        /\ InnermostAppliesFirst
        /\ ReturnedOverNested =>
               LET target == proxies[ret'.px].target
               IN IF ret'.op = "set"
                  THEN ReflectGet(heap', target, ret'.prop) = ret'.val
                  ELSE ~HasProperty(heap', target, ret'.prop) ]_vars

\* C19 amended: a mutation the observer makes through a wrapper while it
\* is invoked is intercepted in the same way, notified and applied before
\* the outer mutation is applied; when the outer operation returns, the
\* outer property holds the outer value if it is writable, and is no own
\* property any more for a delete of an own configurable property; where
\* the outer assignment or delete fails, or the property deleted comes
\* from the prototype, the outer operation changes nothing.
C19_OuterMutationAppliedLast ==
    [][ /\ NestedIsIntercepted
        /\ InnermostAppliesFirst
        /\ ReturnedOverNested =>
               LET target == proxies[ret'.px].target
                   slot == heap[target].props[ret'.prop]
               IN IF ret'.op = "set"
                  THEN IF NonWritable(heap, target, ret'.prop)
                       THEN heap' = heap
                       ELSE ReflectGet(heap', target, ret'.prop) = ret'.val
                  ELSE IF slot.has /\ slot.c
                       THEN ~OwnHas(heap', target, ret'.prop)
                       ELSE heap' = heap ]_vars

\* a write has returned with its value in place although the observer,
\* while notified of it, had written undefined to the same property
C19_Witness ==
    /\ ret.op = "set" /\ ret.res = Bool(TRUE) /\ ret.val = Str(2)
    /\ pend = << >>
    /\ calls = 2
    /\ chain[Len(chain)].target = proxies[ret.px].target
    /\ chain[Len(chain)].prop = ret.prop
    /\ chain[Len(chain)].value = Undefined
    /\ chain[Len(chain)].oldValue = Str(1)
    /\ chain[Len(chain)].receiver # Undefined
    /\ ReflectGet(heap, proxies[ret.px].target, ret.prop) = Str(2)

\* C20: binding a step on a read makes a new observer and leaves the one it
\* extends as it was: no step ever changes the observer of a wrapper that
\* exists, the observer of every wrapper has bound exactly the steps of the
\* reads that led to it, and every firing delivers those steps and the
\* leaf, whatever was read or fired before through this or other wrappers.
C20_BoundStepsDoNotInterfere ==
    [][ /\ \A j \in 1..Len(proxies) :
               /\ j <= Len(proxies')
               /\ proxies'[j].observer = proxies[j].observer
        /\ \A j \in 1..Len(proxies') :
               /\ Len(proxies'[j].observer.bound) = Len(proxies'[j].via)
               /\ PathOf(proxies'[j].observer.bound) = proxies'[j].via
        /\ (ret'.op = "get" /\ Len(proxies') > Len(proxies)) =>
               /\ proxies'[Len(proxies')].observer.f = proxies[ret'.px].observer.f
               /\ SubSeq(proxies'[Len(proxies')].observer.bound, 1,
                         Len(proxies[ret'.px].observer.bound))
                      = proxies[ret'.px].observer.bound
        /\ Called =>
               /\ SubSeq(chain', 1, Len(chain') - 1) = proxies[ret'.px].observer.bound
               /\ Len(chain') = Len(proxies[ret'.px].via) + 1 ]_vars

\* a wrapper one level below the root fires with its one bound step and
\* the leaf after a deeper read was made from it
C20_Witness ==
    /\ ret.op = "observer" /\ ret.px = 2
    /\ Len(proxies) = 3
    /\ Len(proxies[3].via) = 2
    /\ Len(proxies[3].observer.bound) = 2
    /\ Len(chain) = 2
    /\ SubSeq(chain, 1, 1) = proxies[2].observer.bound

\* the containers found from the root container through property values
RECURSIVE Reach(_, _, _)
Reach(h, seen, n) ==
    IF n = 0 THEN seen
    ELSE Reach(h,
               seen \cup {h[o].props[q].v.x :
                            <<o, q>> \in {oq \in seen \X Props :
                                            /\ h[oq[1]].props[oq[2]].has
                                            /\ h[oq[1]].props[oq[2]].v.t = "object"}},
               n - 1)

Reachable(h) == Reach(h, {1}, Len(h))

\* wrapper i was read from a property that has been deleted or reassigned
\* since: its container is not found from the root any more
Detached(i) == proxies[i].target \notin Reachable(heap)

\* C21: a nested wrapper used after the property it was read from was
\* deleted or reassigned still fires with the path recorded when it was
\* read and still acts on the container it was created over: its writes
\* and deletes deliver the bound steps and the leaf, and change that
\* detached container only, as Reflect.set / Reflect.deleteProperty do,
\* leaving every container found from the root as it is.
C21_StaleWrapperKeepsPathAndTarget ==
    [][ /\ \A j \in 1..Len(proxies) : proxies'[j].target = proxies[j].target
        /\ (Called /\ Detached(ret'.px)) =>
               /\ calls' = calls + 1
               /\ PathOf(chain') = Append(proxies[ret'.px].via, ret'.prop)
               /\ SubSeq(chain', 1, Len(chain') - 1) = proxies[ret'.px].observer.bound
               /\ chain'[Len(chain')].target = proxies[ret'.px].target
        /\ (Returned /\ ret'.res # Thrown /\ Detached(ret'.px)) =>
               LET target == proxies[ret'.px].target
               IN /\ \A o \in 1..Len(heap) : o # target => heap'[o] = heap[o]
                  /\ \A o \in Reachable(heap) : heap'[o] = heap[o]
                  /\ Reachable(heap') = Reachable(heap)
                  /\ heap' = IF ret'.op = "set"
                             THEN ReflectSet(heap, target, ret'.prop, ret'.val).heap
                             ELSE ReflectDeleteProperty(heap, target, ret'.prop).heap
                  /\ (ret'.op = "set" /\ ~NonWritable(heap, target, ret'.prop)) =>
                         ReflectGet(heap', target, ret'.prop) = ret'.val ]_vars

\* the property b was deleted through the root wrapper, and then a write
\* through the wrapper read from b before has returned: it fired with the
\* path b, prop and the container it was read over holds the value
C21_Witness ==
    /\ ret.op = "set" /\ ret.fired = 1 /\ ret.res = Bool(TRUE)
    /\ ret.px = 2 /\ proxies[2].via = <<"b">>
    /\ ~HasProperty(heap, 1, "b")
    /\ calls = 2
    /\ PathOf(chain) = <<"b", ret.prop>>
    /\ ret.val = Str(2)
    /\ ReflectGet(heap, proxies[2].target, ret.prop) = Str(2)

\* C22: if the observer throws while it is notified of a write or delete,
\* the error reaches the caller of that operation and the mutation is not
\* made: the step in which the operation ends with the error leaves every
\* container unchanged, and the trap that ends is the one whose observer
\* call threw.
C22_ObserverErrorPreventsMutation ==
    [][ (Returned /\ ret'.res = Thrown) =>
            LET fr == pend[Len(pend)]
            IN /\ pend # << >>
               /\ pend' = SubSeq(pend, 1, Len(pend) - 1)
               /\ ret'.px = fr.px /\ ret'.prop = fr.prop /\ ret'.val = fr.value
               /\ heap' = heap
               /\ calls' = calls /\ chain' = chain ]_vars

\* the observer threw on its first notification, of a write of a new string:
\* the write has ended with the error and the old string is still there
C22_Witness ==
    /\ ret.op = "set" /\ ret.res = Thrown
    /\ pend = << >>
    /\ calls = 1
    /\ chain[Len(chain)].value = Str(2) /\ chain[Len(chain)].oldValue = Str(1)
    /\ chain[Len(chain)].prop = ret.prop
    /\ ReflectGet(heap, proxies[ret.px].target, ret.prop) = Str(1)

====
